---- MODULE Spec2Model ----
(***************************************************************************)
(* A model of q3st1on/ArgParser (src/ArgParser/ArgParser.py): the          *)
(* ArgConstraint value checks and the ArgParser declaration and binding    *)
(* algorithm.                                                              *)
(*                                                                         *)
(* Python values are records [t, n, s]: t is the name of the value's type, *)
(* n its number (an int) or its length (a str), s the name of the type a   *)
(* type object stands for.  An option that may be left out (the source's   *)
(* _sentinel default) is a record [has, val]; an ArgConstraint keeps the   *)
(* same pair as hasX / X.  An ordered dict is a sequence of [name, c]      *)
(* items in insertion order.  An exception is a record [exc, msg, names]:  *)
(* the exception class, the fixed head of its message and the argument     *)
(* names the message carries; NoError stands for a normal return.          *)
(*                                                                         *)
(* Positional and keyword parameters are declared under names of two       *)
(* disjoint pools, and floats are not modelled (numbers are ints).         *)
(***************************************************************************)
EXTENDS Integers, Sequences, FiniteSets, TLC

\* ------------------------------------------------------------------------
\* Bounds of the model
\* ------------------------------------------------------------------------
MaxPos == 2
MaxKw == 2
MaxArgs == 3
MaxBinds == 1
MaxBindVal == 1
MaxNum == 2
MaxLen == 2

\* ------------------------------------------------------------------------
\* Python values
\* ------------------------------------------------------------------------
IntV(k) == [t |-> "int", n |-> k, s |-> ""]
StrV(l) == [t |-> "str", n |-> l, s |-> ""]
BoolV(b) == [t |-> "bool", n |-> IF b THEN 1 ELSE 0, s |-> ""]
NoneV == [t |-> "NoneType", n |-> 0, s |-> ""]
TypeV(name) == [t |-> "type", n |-> 0, s |-> name]
TupleV(names) == [t |-> "tuple", n |-> 0, s |-> names]
Unset == [t |-> "unset", n |-> 0, s |-> ""]

\* an option left out, and an option given
Absent == [has |-> FALSE, val |-> NoneV]
AbsentList == [has |-> FALSE, isList |-> TRUE, val |-> <<>>]
Given(x) == [has |-> TRUE, val |-> x]
GivenList(xs) == [has |-> TRUE, isList |-> TRUE, val |-> xs]
GivenNonList == [has |-> TRUE, isList |-> FALSE, val |-> <<>>]

\* the class hierarchy of the modelled values: bool < int < object, str < object
IsSubclass(t, base) ==
    \/ base = "object"
    \/ t = base
    \/ t = "bool" /\ base = "int"

\* the members of a tuple of types, by the tuple's name
TupleMembers(names) ==
    CASE names = "int,str" -> {"int", "str"}
      [] names = "int,0" -> {"int"}
      [] OTHER -> {}

\* all(isinstance(t, type) for t in dtype)
TupleAllTypes(names) == names # "int,0"

\* isinstance(value, dtype)
IsInstance(value, dtype) ==
    IF dtype.t = "tuple"
    THEN \E base \in TupleMembers(dtype.s) : IsSubclass(value.t, base)
    ELSE IsSubclass(value.t, dtype.s)

\* the values that order against a number, and those that have a length
IsNumber(value) == value.t \in {"int", "bool"}
IsSized(value) == value.t \in {"str"}

\* a == b of two Python values
PyEq(a, b) == IF IsNumber(a) /\ IsNumber(b) THEN a.n = b.n ELSE a = b

\* value in sequence
PyIn(value, xs) == \E i \in 1..Len(xs) : PyEq(value, xs[i])

\* ------------------------------------------------------------------------
\* Exceptions
\* ------------------------------------------------------------------------
NoError == [exc |-> "none", msg |-> "", names |-> {}]
Raise(exc, msg, names) == [exc |-> exc, msg |-> msg, names |-> names]

\* the TypeError Python raises for value < bound on an unordered pair, and
\* for len(value) of a value without a length
UnorderableLt == Raise("TypeError", "'<' not supported", {})
UnorderableGt == Raise("TypeError", "'>' not supported", {})
NoLenError == Raise("TypeError", "object has no len()", {})

\* ------------------------------------------------------------------------
\* ArgConstraint
\* ------------------------------------------------------------------------
ArgConstraint(dtype, subClass, min, max, minLength, maxLength, default, possibleValues, optional) ==
    [dtype |-> dtype, subClass |-> subClass, min |-> min, max |-> max,
     minLength |-> minLength, maxLength |-> maxLength, default |-> default,
     possibleValues |-> possibleValues, optional |-> optional]

\* ArgConstraint.validate, check by check; each is NoError when it passes
CheckDtype(c, name, value) ==
    IF c.dtype.has /\ ~IsInstance(value, c.dtype.val)
    THEN Raise("TypeError", "Type check failed", {name})
    ELSE NoError

CheckSubClass(c, name, value) ==
    IF c.subClass.has /\ ~IsSubclass(value.t, c.subClass.val.s)
    THEN Raise("SubClassError", "Subclass check failed", {name})
    ELSE NoError

\* CheckMin with a bound that excludes the minimum itself
CheckMinStrict(c, name, value) ==
    IF ~c.min.has THEN NoError
    ELSE IF ~IsNumber(value) THEN UnorderableLt
    ELSE IF value.n <= c.min.val.n
    THEN Raise("MinError", "Min check failed", {name})
    ELSE NoError

CheckMin(c, name, value) ==
    IF ~c.min.has THEN NoError
    ELSE IF ~IsNumber(value) THEN UnorderableLt
    ELSE IF value.n < c.min.val.n
    THEN Raise("MinError", "Min check failed", {name})
    ELSE NoError

CheckMax(c, name, value) ==
    IF ~c.max.has THEN NoError
    ELSE IF ~IsNumber(value) THEN UnorderableGt
    ELSE IF value.n > c.max.val.n
    THEN Raise("MaxError", "Max check failed", {name})
    ELSE NoError

CheckMinLength(c, name, value) ==
    IF ~c.minLength.has THEN NoError
    ELSE IF ~IsSized(value) THEN NoLenError
    ELSE IF value.n < c.minLength.val.n
    THEN Raise("MinLengthError", "MinLength check failed", {name})
    ELSE NoError

CheckMaxLength(c, name, value) ==
    IF ~c.maxLength.has THEN NoError
    ELSE IF ~IsSized(value) THEN NoLenError
    ELSE IF value.n > c.maxLength.val.n
    THEN Raise("MaxLengthError", "MaxLength check failed", {name})
    ELSE NoError

CheckPossibleValues(c, name, value) ==
    IF c.possibleValues.has /\ ~PyIn(value, c.possibleValues.val)
    THEN Raise("InvalidArgument", "Invalid argument", {name})
    ELSE NoError

\* the first exception of a sequence of check results: the statements of
\* validate run in order and the first raise leaves the function
FirstError(results) ==
    IF \A i \in 1..Len(results) : results[i] = NoError
    THEN NoError
    ELSE results[CHOOSE i \in 1..Len(results) :
                    /\ results[i] # NoError
                    /\ \A j \in 1..(i - 1) : results[j] = NoError]

\* validate with the maximum checked before the minimum
validateMaxBeforeMin(c, name, value) ==
    FirstError(<<CheckDtype(c, name, value), CheckSubClass(c, name, value),
                 CheckMax(c, name, value), CheckMin(c, name, value),
                 CheckMinLength(c, name, value), CheckMaxLength(c, name, value),
                 CheckPossibleValues(c, name, value)>>)

validate(c, name, value) ==
    FirstError(<<CheckDtype(c, name, value), CheckSubClass(c, name, value),
                 CheckMin(c, name, value), CheckMax(c, name, value),
                 CheckMinLength(c, name, value), CheckMaxLength(c, name, value),
                 CheckPossibleValues(c, name, value)>>)

\* ------------------------------------------------------------------------
\* ArgParser: declarations
\* ------------------------------------------------------------------------
\* The keyword options of a declaration call are a record: unsupported says
\* that a key outside the nine supported ones is among them, and each
\* supported key is an option [has, val].

\* the helper localValidate of _parseConstraint, over the options it closes
\* over; possibleVals is its third parameter
localValidate(kwargs, name, value, possibleVals) ==
    FirstError(<<CheckDtype(kwargs, name, value), CheckSubClass(kwargs, name, value),
                 CheckMin(kwargs, name, value), CheckMax(kwargs, name, value),
                 CheckMinLength(kwargs, name, value), CheckMaxLength(kwargs, name, value),
                 IF ~possibleVals THEN NoError
                 ELSE IF ~kwargs.possibleValues.has
                 THEN Raise("TypeError", "argument of type 'object' is not iterable", {})
                 ELSE CheckPossibleValues(kwargs, name, value)>>)

\* the name localValidate is given for the i-th element (from 0) of possibleValues
PossibleValuesName(i) ==
    CASE i = 0 -> "possibleValues[0]"
      [] i = 1 -> "possibleValues[1]"
      [] OTHER -> "possibleValues[2]"

\* the shape checks of the options, in the order of _parseConstraint
CheckDtypeSpec(kwargs, name) ==
    IF kwargs.dtype.has
       /\ (\/ kwargs.dtype.val.t \notin {"type", "tuple"}
           \/ kwargs.dtype.val.t = "tuple" /\ ~TupleAllTypes(kwargs.dtype.val.s))
    THEN Raise("TypeError", "dtype constraint is invalid", {name})
    ELSE NoError

CheckSubClassSpec(kwargs, name) ==
    IF kwargs.subClass.has /\ kwargs.subClass.val.t # "type"
    THEN Raise("TypeError", "subClass constraint is invalid", {name})
    ELSE NoError

CheckNumberSpec(opt, key, name) ==
    IF opt.has /\ ~IsNumber(opt.val)
    THEN Raise("TypeError", key, {name})
    ELSE NoError

CheckOptionalSpec(kwargs, name) ==
    IF kwargs.optional.has /\ kwargs.optional.val.t # "bool"
    THEN Raise("TypeError", "optional constraint is invalid", {name})
    ELSE NoError

\* possibleValues must be a list or tuple, and each element passes localValidate
CheckPossibleValuesSpec(kwargs, name) ==
    IF ~kwargs.possibleValues.has THEN NoError
    ELSE IF ~kwargs.possibleValues.isList
    THEN Raise("TypeError", "possibleValues constraint invalid", {name})
    ELSE FirstError([i \in 1..Len(kwargs.possibleValues.val) |->
             localValidate(kwargs, PossibleValuesName(i - 1),
                           kwargs.possibleValues.val[i], FALSE)])

CheckDefaultSpec(kwargs, name) ==
    IF kwargs.default.has
    THEN localValidate(kwargs, "default", kwargs.default.val, FALSE)
    ELSE NoError

\* _parseConstraint: [err, c], c being the constraint returned when err is NoError
_parseConstraint(name, kwargs) ==
    LET err == FirstError(<<
                 IF kwargs.unsupported
                 THEN Raise("NotImplementedError", "Unsupported constraint key", {name})
                 ELSE NoError,
                 CheckDtypeSpec(kwargs, name),
                 CheckSubClassSpec(kwargs, name),
                 CheckNumberSpec(kwargs.min, "min must be of type 'int' or 'float'", name),
                 CheckNumberSpec(kwargs.max, "max must be of type 'int' or 'float'", name),
                 CheckNumberSpec(kwargs.minLength, "minLength constraint is invalid", name),
                 CheckNumberSpec(kwargs.maxLength, "maxLength constraint is invalid", name),
                 CheckOptionalSpec(kwargs, name),
                 CheckPossibleValuesSpec(kwargs, name),
                 CheckDefaultSpec(kwargs, name)>>)
    IN [err |-> err,
        c |-> ArgConstraint(kwargs.dtype, kwargs.subClass, kwargs.min, kwargs.max,
                            kwargs.minLength, kwargs.maxLength, kwargs.default,
                            kwargs.possibleValues,
                            IF kwargs.optional.has THEN kwargs.optional.val.n = 1 ELSE FALSE)]

\* ordered dict operations on a sequence of [name, c] items
Keys(d) == {d[i].name : i \in 1..Len(d)}
KeyList(d) == [i \in 1..Len(d) |-> d[i].name]
IndexOf(d, name) == CHOOSE i \in 1..Len(d) : d[i].name = name
\* d[name] = c: an existing key keeps its place
DictSet(d, name, c) ==
    IF name \in Keys(d)
    THEN [d EXCEPT ![IndexOf(d, name)] = [name |-> name, c |-> c]]
    ELSE Append(d, [name |-> name, c |-> c])
\* del d[name]
DictDel(d, name) ==
    LET i == IndexOf(d, name)
    IN SubSeq(d, 1, i - 1) \o SubSeq(d, i + 1, Len(d))
\* del xs[i], i from 0
ListDel(xs, i) == SubSeq(xs, 1, i) \o SubSeq(xs, i + 2, Len(xs))

\* ------------------------------------------------------------------------
\* ArgParser: binding
\* ------------------------------------------------------------------------
\* self is a record [_args, _kwargs, _hasDefaultPositionalArg, attrs]; attrs
\* are the attributes setattr puts on the parser, Unset where none is set.
\* The keyword values of a call are a function from the names supplied.

SetAttr(attrs, name, value) == [attrs EXCEPT ![name] = value]

\* the for loop of _parsePositionalArgs at its i-th iteration (from 0): zip
\* reads position i of the list args, which del args[i] shortens as it goes,
\* and position i of the copy items of the declarations
RECURSIVE PositionalLoop(_, _, _, _)
PositionalLoop(i, items, args, self) ==
    IF i >= Len(args) \/ i >= Len(items)
    THEN [err |-> NoError, args |-> args, self |-> self]
    ELSE LET arg == args[i + 1]
             name == items[i + 1].name
             e == validate(items[i + 1].c, name, arg)
         IN IF e # NoError
            THEN [err |-> e, args |-> args, self |-> self]
            ELSE PositionalLoop(i + 1, items, ListDel(args, i),
                    [self EXCEPT !.attrs = SetAttr(@, name, arg),
                                 !._args = DictDel(@, name)])

\* the error for the positional declarations left after the loop
MissingPositionalError(d) ==
    IF Len(d) = 1
    THEN Raise("TypeError", "missing positional argument", Keys(d))
    ELSE Raise("TypeError", "missing positional arguments", Keys(d))

\* kwargs after kwargs[kwargNames[i]] = arg for i, arg in enumerate(args)
Overflow(kwargs, kwargNames, args) ==
    LET targets == {kwargNames[i] : i \in 1..Len(args)}
    IN [n \in (DOMAIN kwargs) \cup targets |->
          IF n \in targets
          THEN args[CHOOSE i \in 1..Len(args) : kwargNames[i] = n]
          ELSE kwargs[n]]

\* the count check that opens _parsePositionalArgs, for P positional and K
\* keyword declarations and A positional values: the exception it raises
\* (CountCheckOffByOne: the check refusing A = P + K as well)
CountCheckOffByOne(P, K, A) ==
    IF A > P /\ K = 0
    THEN Raise("TypeError", "Too many positional arguments", {})
    ELSE IF A > P /\ K + P <= A
    THEN Raise("TypeError", "Too many positional arguments considering keyword args", {})
    ELSE NoError

CountCheck(P, K, A) ==
    IF A > P /\ K = 0
    THEN Raise("TypeError", "Too many positional arguments", {})
    ELSE IF A > P /\ K + P < A
    THEN Raise("TypeError", "Too many positional arguments considering keyword args", {})
    ELSE NoError

\* the branch of _parsePositionalArgs that binds the first positional
\* declaration to its default: self after it
\* (PositionalDefaultUnbound: the branch without its setattr)
PositionalDefaultUnbound(self) ==
    [self EXCEPT !._args = DictDel(@, self._args[1].name)]

PositionalDefault(self) ==
    [self EXCEPT !.attrs = SetAttr(@, self._args[1].name, self._args[1].c.default.val),
                 !._args = DictDel(@, self._args[1].name)]

\* _parsePositionalArgs: [err, self, kwargs], kwargs being the value returned
_parsePositionalArgs(self, args, kwargs) ==
    LET P == Len(self._args)
        K == Len(self._kwargs)
        A == Len(args)
        keywordlessKWARGS == A > P /\ CountCheck(P, K, A) = NoError
        loop == PositionalLoop(0, self._args, args, self)
    IN IF CountCheck(P, K, A) # NoError
       THEN [err |-> CountCheck(P, K, A), self |-> self, kwargs |-> kwargs]
       ELSE IF self._hasDefaultPositionalArg /\ A = 0
       THEN IF P = 0
            THEN [err |-> Raise("IndexError", "list index out of range", {}),
                  self |-> self, kwargs |-> kwargs]
            ELSE [err |-> NoError, self |-> PositionalDefault(self), kwargs |-> kwargs]
       ELSE IF loop.err # NoError
       THEN [err |-> loop.err, self |-> loop.self, kwargs |-> kwargs]
       ELSE IF Len(loop.self._args) > 0
       THEN [err |-> MissingPositionalError(loop.self._args),
             self |-> loop.self, kwargs |-> kwargs]
       ELSE IF keywordlessKWARGS /\ Len(loop.args) > K
       THEN [err |-> Raise("IndexError", "list index out of range", {}),
             self |-> loop.self, kwargs |-> kwargs]
       ELSE [err |-> NoError, self |-> loop.self,
             kwargs |-> IF keywordlessKWARGS
                        THEN Overflow(kwargs, KeyList(self._kwargs), loop.args)
                        ELSE kwargs]

\* kwargs == 1 of _parseKeywordArgs: a dict compared with an int
DictEqualsInt(kwargs, k) == FALSE

\* del kwargs[name]
KwDel(kwargs, name) == [n \in (DOMAIN kwargs) \ {name} |-> kwargs[n]]

\* one iteration of the for loop of _parseKeywordArgs, for the declaration
\* name -> constraint: [err, value], value being what the name is bound to
\* (KeywordResolveDefaultFirst: the default taken before a supplied value)
KeywordResolveDefaultFirst(constraint, name, kwargs) ==
    IF constraint.default.has
    THEN [err |-> NoError, value |-> constraint.default.val]
    ELSE IF name \in DOMAIN kwargs
    THEN [err |-> validate(constraint, name, kwargs[name]), value |-> kwargs[name]]
    ELSE IF constraint.optional
    THEN [err |-> NoError, value |-> NoneV]
    ELSE [err |-> Raise("TypeError", "Missing required keyword argument", {name}),
          value |-> Unset]

KeywordResolve(constraint, name, kwargs) ==
    IF name \in DOMAIN kwargs
    THEN [err |-> validate(constraint, name, kwargs[name]), value |-> kwargs[name]]
    ELSE IF constraint.default.has
    THEN [err |-> NoError, value |-> constraint.default.val]
    ELSE IF constraint.optional
    THEN [err |-> NoError, value |-> NoneV]
    ELSE [err |-> Raise("TypeError", "Missing required keyword argument", {name}),
          value |-> Unset]

\* the for loop of _parseKeywordArgs from the i-th item (from 1) of the copy
\* items of the keyword declarations: a resolved name is set on the parser,
\* taken out of kwargs and its declaration deleted
RECURSIVE KeywordLoop(_, _, _, _)
KeywordLoop(i, items, kwargs, self) ==
    IF i > Len(items)
    THEN [err |-> NoError, kwargs |-> kwargs, self |-> self]
    ELSE LET name == items[i].name
             r == KeywordResolve(items[i].c, name, kwargs)
         IN IF r.err # NoError
            THEN [err |-> r.err, kwargs |-> kwargs, self |-> self]
            ELSE KeywordLoop(i + 1, items, KwDel(kwargs, name),
                    [self EXCEPT !.attrs = SetAttr(@, name, r.value),
                                 !._kwargs = DictDel(@, name)])

\* _parseKeywordArgs: [err, self]
_parseKeywordArgs(self, kwargs) ==
    LET loop == KeywordLoop(1, self._kwargs, kwargs, self)
    IN IF loop.err # NoError
       THEN [err |-> loop.err, self |-> loop.self]
       ELSE IF Cardinality(DOMAIN loop.kwargs) > 0
       THEN IF DictEqualsInt(loop.kwargs, 1)
            THEN [err |-> Raise("TypeError", "got an unexpected keyword argument",
                                {CHOOSE n \in DOMAIN loop.kwargs : TRUE}),
                  self |-> loop.self]
            ELSE [err |-> Raise("TypeError", "got unexpected keyword arguments",
                                DOMAIN loop.kwargs),
                  self |-> loop.self]
       ELSE [err |-> NoError, self |-> loop.self]

\* parseArgs: [err, self, mid]; mid tells whether the positional phase
\* returned, and the keyword values it returned
parseArgs(self, args, kwargs) ==
    LET pos == _parsePositionalArgs(self, args, kwargs)
        kw == _parseKeywordArgs(pos.self, pos.kwargs)
    IN IF pos.err # NoError
       THEN [err |-> pos.err, self |-> pos.self,
             mid |-> [returned |-> FALSE, kwargs |-> kwargs]]
       ELSE [err |-> kw.err, self |-> kw.self,
             mid |-> [returned |-> TRUE, kwargs |-> pos.kwargs]]

\* ------------------------------------------------------------------------
\* The parser as a state machine
\* ------------------------------------------------------------------------
VARIABLES
    _args,                      \* ArgParser._args: the positional declarations
    _kwargs,                    \* ArgParser._kwargs: the keyword declarations
    _hasDefaultPositionalArg,   \* ArgParser._hasDefaultPositionalArg
    attrs,                      \* the attributes parseArgs has set on the parser
    binds,                      \* the number of parseArgs calls made
    last                        \* the last call: its inputs, the state before it, its outcome

vars == <<_args, _kwargs, _hasDefaultPositionalArg, attrs, binds, last>>

\* the names parameters are declared under, in the order they are first used
PosPool == <<"p1", "p2", "p3", "p4">>
KwPool == <<"k1", "k2", "k3", "k4">>
PosNames == {PosPool[i] : i \in 1..MaxPos}
KwNames == {KwPool[i] : i \in 1..MaxKw}
\* the keyword names a call may supply: the declarable ones and one never declared
SuppliedNames == KwNames \cup {"x"}

\* the parser object
Self == [_args |-> _args, _kwargs |-> _kwargs,
         _hasDefaultPositionalArg |-> _hasDefaultPositionalArg, attrs |-> attrs]

\* ArgParser.__init__
Init ==
    /\ _args = <<>>
    /\ _kwargs = <<>>
    /\ _hasDefaultPositionalArg = FALSE
    /\ attrs = [n \in PosNames \cup KwNames |-> Unset]
    /\ binds = 0
    /\ last = [op |-> "__init__"]

\* the options of the declaration calls made
NoOptions ==
    [unsupported |-> FALSE, dtype |-> Absent, subClass |-> Absent, min |-> Absent,
     max |-> Absent, minLength |-> Absent, maxLength |-> Absent, default |-> Absent,
     possibleValues |-> AbsentList, optional |-> Absent]

DeclOptions ==
    { NoOptions,
      [NoOptions EXCEPT !.min = Given(IntV(1))],
      [NoOptions EXCEPT !.default = Given(IntV(1))],
      [NoOptions EXCEPT !.optional = Given(BoolV(TRUE))],
      [NoOptions EXCEPT !.default = Given(IntV(0)),
                        !.possibleValues = GivenList(<<IntV(1)>>)],
      [NoOptions EXCEPT !.min = Given(IntV(1)), !.default = Given(IntV(0))],
      [NoOptions EXCEPT !.min = Given(IntV(1)),
                        !.possibleValues = GivenList(<<IntV(0)>>)],
      [NoOptions EXCEPT !.min = Given(StrV(1))],
      [NoOptions EXCEPT !.unsupported = TRUE] }

\* the name of a declaration call: one already declared, or the next of the pool
DeclNames(d, pool, max) ==
    Keys(d) \cup (IF Len(d) < max
                  THEN {pool[CHOOSE i \in 1..max :
                                /\ pool[i] \notin Keys(d)
                                /\ \A j \in 1..(i - 1) : pool[j] \in Keys(d)]}
                  ELSE {})

\* the values and keyword values of the parseArgs calls made
BindValues == {IntV(k) : k \in 0..MaxBindVal}
BindArgs == UNION {[1..l -> BindValues] : l \in 0..MaxArgs}
BindKwargs ==
    {kw \in UNION {[S -> BindValues] : S \in SUBSET SuppliedNames} :
        "x" \in DOMAIN kw => kw["x"] = IntV(0)}

\* ArgParser.addKeywordArg(name, **kwargs)
AddKeywordArg ==
    /\ binds = 0
    /\ \E kwargs \in DeclOptions :
       \E name \in DeclNames(_kwargs, KwPool, MaxKw) :
           LET parsed == _parseConstraint(name, kwargs)
           IN /\ _kwargs' = IF parsed.err = NoError
                            THEN DictSet(_kwargs, name, parsed.c)
                            ELSE _kwargs
              /\ last' = [op |-> "addKeywordArg", name |-> name, kwargs |-> kwargs,
                          err |-> parsed.err]
              /\ UNCHANGED <<_args, _hasDefaultPositionalArg, attrs, binds>>

\* addPositionalArg without its first test, of _hasDefaultPositionalArg
addPositionalArgNoFlagCheck(self, name, kwargs) ==
    LET parsed == _parseConstraint(name, kwargs)
        same == [err |-> NoError, _args |-> self._args,
                 _hasDefaultPositionalArg |-> self._hasDefaultPositionalArg]
    IN IF parsed.err # NoError
       THEN [same EXCEPT !.err = parsed.err]
       ELSE IF parsed.c.default.has /\ Len(self._args) # 0
       THEN [same EXCEPT !.err = Raise("ValueError",
                "Multiple positional arguments with defaults are not allowed.", {})]
       ELSE [err |-> NoError,
             _args |-> DictSet(self._args, name, parsed.c),
             _hasDefaultPositionalArg |-> parsed.c.default.has]

\* addPositionalArg setting _hasDefaultPositionalArg before it tests _args
addPositionalArgFlagFirst(self, name, kwargs) ==
    LET parsed == _parseConstraint(name, kwargs)
        same == [err |-> NoError, _args |-> self._args,
                 _hasDefaultPositionalArg |-> self._hasDefaultPositionalArg]
    IN IF self._hasDefaultPositionalArg
       THEN [same EXCEPT !.err = Raise("ValueError",
                "If a default is set on a positional arg only one positional arg may be used",
                {})]
       ELSE IF parsed.err # NoError
       THEN [same EXCEPT !.err = parsed.err]
       ELSE IF parsed.c.default.has /\ Len(self._args) # 0
       THEN [same EXCEPT !.err = Raise("ValueError",
                "Multiple positional arguments with defaults are not allowed.", {}),
                         !._hasDefaultPositionalArg = TRUE]
       ELSE [err |-> NoError,
             _args |-> DictSet(self._args, name, parsed.c),
             _hasDefaultPositionalArg |-> parsed.c.default.has]

\* the outcome of addPositionalArg: [err, _args, _hasDefaultPositionalArg]
addPositionalArg(self, name, kwargs) ==
    LET parsed == _parseConstraint(name, kwargs)
        same == [err |-> NoError, _args |-> self._args,
                 _hasDefaultPositionalArg |-> self._hasDefaultPositionalArg]
    IN IF self._hasDefaultPositionalArg
       THEN [same EXCEPT !.err = Raise("ValueError",
                "If a default is set on a positional arg only one positional arg may be used",
                {})]
       ELSE IF parsed.err # NoError
       THEN [same EXCEPT !.err = parsed.err]
       ELSE IF parsed.c.default.has /\ Len(self._args) # 0
       THEN [same EXCEPT !.err = Raise("ValueError",
                "Multiple positional arguments with defaults are not allowed.", {})]
       ELSE [err |-> NoError,
             _args |-> DictSet(self._args, name, parsed.c),
             _hasDefaultPositionalArg |-> parsed.c.default.has]

\* ArgParser.addPositionalArg(name, **kwargs)
AddPositionalArg ==
    /\ binds = 0
    /\ \E kwargs \in DeclOptions :
       \E name \in DeclNames(_args, PosPool, MaxPos) :
           LET r == addPositionalArg(Self, name, kwargs)
           IN /\ _args' = r._args
              /\ _hasDefaultPositionalArg' = r._hasDefaultPositionalArg
              /\ last' = [op |-> "addPositionalArg", name |-> name, kwargs |-> kwargs,
                          err |-> r.err]
              /\ UNCHANGED <<_kwargs, attrs, binds>>

\* ArgParser.parseArgs(*args, **kwargs); a caller whose last declaration
\* raised does not go on to bind.  With again, the call is made right after a
\* first call and with the arguments of that call, and first keeps the
\* outcome of the first call.
ParseArgs ==
    /\ last.op \in {"addKeywordArg", "addPositionalArg"} => last.err = NoError
    /\ \E again \in BOOLEAN :
          /\ IF again THEN last.op = "parseArgs" /\ ~last.again ELSE binds < MaxBinds
          /\ \E args \in (IF again THEN {last.args} ELSE BindArgs) :
             \E kwargs \in (IF again THEN {last.kwargs} ELSE BindKwargs) :
                 LET r == parseArgs(Self, args, kwargs)
                 IN /\ binds' = binds + 1
                    /\ _args' = r.self._args
                    /\ _kwargs' = r.self._kwargs
                    /\ _hasDefaultPositionalArg' = r.self._hasDefaultPositionalArg
                    /\ attrs' = r.self.attrs
                    /\ last' = [op |-> "parseArgs", args |-> args, kwargs |-> kwargs,
                                pre |-> Self, mid |-> r.mid, err |-> r.err,
                                again |-> again,
                                first |-> IF again
                                          THEN [err |-> last.err, attrs |-> attrs]
                                          ELSE [err |-> r.err, attrs |-> r.self.attrs]]

Next == AddKeywordArg \/ AddPositionalArg \/ ParseArgs

Spec == Init /\ [][Next]_vars

\* ------------------------------------------------------------------------
\* ArgConstraint.validate on its own
\* ------------------------------------------------------------------------
\* the values validate is called with, and the constraints it is called on
Numbers == {IntV(k) : k \in 0..MaxNum}
Lengths == {IntV(k) : k \in 0..MaxLen}
ValidateValues == Numbers \cup {StrV(l) : l \in 0..MaxLen} \cup {NoneV}
OptionOf(S) == {Absent} \cup {Given(x) : x \in S}
DtypeOptions == OptionOf({TypeV("int"), TypeV("str"), TypeV("object"), TupleV("int,str")})
SubClassOptions == OptionOf({TypeV("int"), TypeV("str"), TypeV("object")})
PossibleValuesOptions ==
    {AbsentList, GivenList(<<>>), GivenList(<<IntV(1)>>), GivenList(<<StrV(1), IntV(0)>>)}

\* ArgConstraint(...).validate("v", value), called once
ValidateCall ==
    /\ last.op = "__init__"
    /\ \E dtype \in DtypeOptions, subClass \in SubClassOptions :
       \E min \in OptionOf(Numbers), max \in OptionOf(Numbers) :
       \E minLength \in OptionOf(Lengths), maxLength \in OptionOf(Lengths) :
       \E possibleValues \in PossibleValuesOptions, value \in ValidateValues :
           LET c == ArgConstraint(dtype, subClass, min, max, minLength, maxLength,
                                  Absent, possibleValues, FALSE)
           IN /\ last' = [op |-> "validate", c |-> c, name |-> "v", value |-> value,
                          err |-> validate(c, "v", value)]
              /\ UNCHANGED <<_args, _kwargs, _hasDefaultPositionalArg, attrs, binds>>

SpecValidate == Init /\ [][ValidateCall]_vars

\* ------------------------------------------------------------------------
\* Properties
\* ------------------------------------------------------------------------
\* the error kinds of the specification, as the exceptions of the source
IsTooManyPositional(e) ==
    /\ e.exc = "TypeError"
    /\ e.msg \in {"Too many positional arguments",
                  "Too many positional arguments considering keyword args"}
IsMissingPositional(e) ==
    /\ e.exc = "TypeError"
    /\ e.msg \in {"missing positional argument", "missing positional arguments"}
IsMissingKeyword(e) ==
    e.exc = "TypeError" /\ e.msg = "Missing required keyword argument"
IsUnexpectedKeyword(e) ==
    /\ e.exc = "TypeError"
    /\ e.msg \in {"got an unexpected keyword argument", "got unexpected keyword arguments"}

\* the last call was parseArgs; its counts P, K, A and its declarations
Bound == last.op = "parseArgs"
P0 == Len(last.pre._args)
K0 == Len(last.pre._kwargs)
A0 == Len(last.args)
PosName(i) == last.pre._args[i].name
KwName(i) == last.pre._kwargs[i].name
\* the i-th positional value satisfies the constraint of the i-th positional declaration
PosValid(i) == validate(last.pre._args[i].c, PosName(i), last.args[i]) = NoError
\* the count of positional values is one the count check lets through
CountAllowed == A0 <= P0 \/ (K0 > 0 /\ A0 <= P0 + K0)
\* the call is the one that binds a lone defaulted positional to its default
DefaultedCase == last.pre._hasDefaultPositionalArg /\ A0 = 0

\* C1: a call with P >= 1 positional declarations and A >= P positional
\* values (A allowed by the count check), the first P of which satisfy their
\* constraints, passes the positional phase and binds the i-th declared
\* positional parameter to the i-th value, for every i.
C1_PositionalInOrder ==
    (Bound /\ P0 >= 1 /\ A0 >= P0 /\ CountAllowed /\ \A i \in 1..P0 : PosValid(i))
    => /\ last.mid.returned
       /\ \A i \in 1..P0 : attrs[PosName(i)] = last.args[i]

\* C2: overflow.  With P < A <= P + K, K >= 1, no explicit keyword for an
\* overflow target and every value valid for its target, the first P values
\* are bound to the positional declarations and the j-th remaining value is
\* handed to, and on success bound to, the j-th keyword declaration.
C2_Overflow ==
    (/\ Bound /\ K0 >= 1 /\ P0 < A0 /\ A0 <= P0 + K0
     /\ \A j \in 1..(A0 - P0) : KwName(j) \notin DOMAIN last.kwargs
     /\ \A i \in 1..P0 : PosValid(i)
     /\ \A j \in 1..(A0 - P0) :
           validate(last.pre._kwargs[j].c, KwName(j), last.args[P0 + j]) = NoError)
    => /\ last.mid.returned
       /\ \A i \in 1..P0 : attrs[PosName(i)] = last.args[i]
       /\ \A j \in 1..(A0 - P0) :
             /\ KwName(j) \in DOMAIN last.mid.kwargs
             /\ last.mid.kwargs[KwName(j)] = last.args[P0 + j]
             /\ attrs[KwName(j)] = last.args[P0 + j]

\* C3: parseArgs fails with TooManyPositional exactly when A > P and (K = 0
\* or A > P + K), and then nothing has been validated or bound: the
\* attributes and the declarations are as before the call.
C3_TooManyPositional ==
    Bound =>
      /\ IsTooManyPositional(last.err) <=> (A0 > P0 /\ (K0 = 0 \/ A0 > P0 + K0))
      /\ IsTooManyPositional(last.err) =>
            /\ attrs = last.pre.attrs
            /\ _args = last.pre._args
            /\ _kwargs = last.pre._kwargs

\* a call refused for its count although its first value is not valid for the
\* first positional declaration and keyword declarations exist
C3_Witness ==
    /\ Bound /\ IsTooManyPositional(last.err)
    /\ P0 >= 1 /\ K0 >= 1 /\ A0 > P0 + K0
    /\ ~PosValid(1)

\* the keyword phase of the last call, item by item: the i-th keyword
\* declaration is supplied in the keyword values the positional phase
\* returned, and the i-th declaration fails
KwSupplied(i) == KwName(i) \in DOMAIN last.mid.kwargs
KwFails(i) ==
    LET c == last.pre._kwargs[i].c
    IN IF KwSupplied(i)
       THEN validate(c, KwName(i), last.mid.kwargs[KwName(i)]) # NoError
       ELSE ~c.default.has /\ ~c.optional
\* the declarations resolved: those before the first failing one
KwResolved == {i \in 1..K0 : \A j \in 1..i : ~KwFails(j)}

\* C4: in the keyword phase each declared keyword is resolved in order: to
\* the supplied (or overflowed) value once validated, else to its default,
\* else, if optional, to the absent marker None; the first declaration that
\* has none of these fails the call with MissingKeyword naming it, and the
\* first supplied value that is not valid fails it with its validation error.
C4_KeywordPrecedence ==
    (Bound /\ last.mid.returned) =>
      /\ \A i \in KwResolved :
            LET c == last.pre._kwargs[i].c
            IN attrs[KwName(i)] =
                  IF KwSupplied(i) THEN last.mid.kwargs[KwName(i)]
                  ELSE IF c.default.has THEN c.default.val
                  ELSE NoneV
      /\ \A i \in 1..K0 :
            (KwFails(i) /\ (i - 1) \in KwResolved \cup {0}) =>
               IF KwSupplied(i)
               THEN last.err = validate(last.pre._kwargs[i].c, KwName(i),
                                        last.mid.kwargs[KwName(i)])
               ELSE IsMissingKeyword(last.err) /\ last.err.names = {KwName(i)}
      /\ IsMissingKeyword(last.err) => \E i \in 1..K0 : KwFails(i) /\ ~KwSupplied(i)

\* a successful call in which a keyword with a default takes the supplied
\* value, not the default, and an optional keyword without a value is None
C4_Witness ==
    /\ Bound /\ last.err = NoError /\ K0 = 2
    /\ last.pre._kwargs[1].c.default.has /\ KwSupplied(1)
    /\ attrs[KwName(1)] # last.pre._kwargs[1].c.default.val
    /\ last.pre._kwargs[2].c.optional /\ ~KwSupplied(2)
    /\ attrs[KwName(2)] = NoneV

\* the supplied keyword names that are not declared keywords
Undeclared == (DOMAIN last.kwargs) \ Keys(last.pre._kwargs)

\* C5: parseArgs fails with UnexpectedKeyword exactly when the positional
\* phase passed, every declared keyword was resolved without error and some
\* supplied keyword name is not a declared keyword; the error names all
\* such names, in the single-name form when there is one and in the list
\* form when there are several.
C5_UnexpectedKeyword ==
    Bound =>
      /\ IsUnexpectedKeyword(last.err) <=>
            (last.mid.returned /\ KwResolved = 1..K0 /\ Undeclared # {})
      /\ IsUnexpectedKeyword(last.err) =>
            /\ last.err.names = Undeclared
            /\ (Cardinality(Undeclared) = 1) <=>
                  (last.err.msg = "got an unexpected keyword argument")

\* C6: outside the call that binds a lone defaulted positional to its
\* default, parseArgs fails with MissingPositional iff A < P and the A values
\* supplied are valid, and the error names the declarations A+1..P; it is
\* never reported when A >= P.
C6_MissingPositional ==
    (Bound /\ ~DefaultedCase) =>
      /\ IsMissingPositional(last.err) <=> (A0 < P0 /\ \A i \in 1..A0 : PosValid(i))
      /\ IsMissingPositional(last.err) =>
            last.err.names = {PosName(i) : i \in (A0 + 1)..P0}

\* C7: a parser whose only positional declaration has a default D binds it
\* to D, and passes the positional phase, when called with no positional
\* value; called with one, it validates that value and binds it instead.
C7_PositionalDefault ==
    (Bound /\ P0 = 1 /\ last.pre._args[1].c.default.has) =>
      /\ A0 = 0 =>
            /\ last.mid.returned
            /\ ~IsMissingPositional(last.err)
            /\ attrs[PosName(1)] = last.pre._args[1].c.default.val
      /\ A0 = 1 =>
            IF PosValid(1)
            THEN last.mid.returned /\ attrs[PosName(1)] = last.args[1]
            ELSE /\ last.err = validate(last.pre._args[1].c, PosName(1), last.args[1])
                 /\ attrs[PosName(1)] = last.pre.attrs[PosName(1)]

\* a successful call with no positional value on a lone defaulted positional
C7_Witness ==
    /\ Bound /\ P0 = 1 /\ last.pre._args[1].c.default.has /\ A0 = 0
    /\ last.err = NoError
    /\ attrs[PosName(1)] = last.pre._args[1].c.default.val

\* the checks of validate on the last validate call, numbered in the order
\* type, subtype, minimum, maximum, minLength, maxLength, allowedValues: the
\* k-th check is active and does not pass
CheckFails(k) ==
    LET c == last.c
        v == last.value
    IN CASE k = 1 -> c.dtype.has /\ ~IsInstance(v, c.dtype.val)
         [] k = 2 -> c.subClass.has /\ ~IsSubclass(v.t, c.subClass.val.s)
         [] k = 3 -> c.min.has /\ (~IsNumber(v) \/ v.n < c.min.val.n)
         [] k = 4 -> c.max.has /\ (~IsNumber(v) \/ v.n > c.max.val.n)
         [] k = 5 -> c.minLength.has /\ (~IsSized(v) \/ v.n < c.minLength.val.n)
         [] k = 6 -> c.maxLength.has /\ (~IsSized(v) \/ v.n > c.maxLength.val.n)
         [] OTHER -> c.possibleValues.has
                     /\ \A i \in 1..Len(c.possibleValues.val) :
                           ~PyEq(v, c.possibleValues.val[i])
\* e is an error of the k-th check
ErrorOfCheck(k, e) ==
    CASE k = 1 -> e.exc = "TypeError" /\ e.msg = "Type check failed"
      [] k = 2 -> e.exc = "SubClassError"
      [] k = 3 -> e.exc = "MinError" \/ e = UnorderableLt
      [] k = 4 -> e.exc = "MaxError" \/ e = UnorderableGt
      [] k = 5 -> e.exc = "MinLengthError" \/ e = NoLenError
      [] k = 6 -> e.exc = "MaxLengthError" \/ e = NoLenError
      [] OTHER -> e.exc = "InvalidArgument"
FirstFailing(k) == CheckFails(k) /\ \A j \in 1..(k - 1) : ~CheckFails(j)

\* C8: validate fails with the error of the first check that fails, in the
\* order type, subtype, minimum, maximum, minLength, maxLength,
\* allowedValues, and succeeds iff none fails; it fails with NotAllowedValue
\* (InvalidArgument) iff the value equals no element of possibleValues and
\* no earlier check fails.
C8_CheckOrder ==
    last.op = "validate" =>
      /\ last.err = NoError <=> \A k \in 1..7 : ~CheckFails(k)
      /\ \A k \in 1..7 : FirstFailing(k) => ErrorOfCheck(k, last.err)
      /\ last.err.exc = "InvalidArgument" <=> FirstFailing(7)

\* a value below the minimum and above the maximum: the minimum is reported
C8_Witness ==
    /\ last.op = "validate"
    /\ CheckFails(3) /\ CheckFails(4) /\ FirstFailing(3)
    /\ last.err.exc = "MinError"

\* only the range checks, or only the length checks, of the last validate
\* call are active, on a value they apply to, with min <= max
RangeOnly ==
    /\ last.op = "validate"
    /\ ~last.c.dtype.has /\ ~last.c.subClass.has /\ ~last.c.possibleValues.has
    /\ ~last.c.minLength.has /\ ~last.c.maxLength.has
    /\ IsNumber(last.value)
    /\ (last.c.min.has /\ last.c.max.has) => last.c.min.val.n <= last.c.max.val.n
LengthOnly ==
    /\ last.op = "validate"
    /\ ~last.c.dtype.has /\ ~last.c.subClass.has /\ ~last.c.possibleValues.has
    /\ ~last.c.min.has /\ ~last.c.max.has
    /\ IsSized(last.value)
    /\ (last.c.minLength.has /\ last.c.maxLength.has)
          => last.c.minLength.val.n <= last.c.maxLength.val.n

\* C9: the bounds are inclusive.  With only range checks active validate
\* fails with MinError exactly for v < min, with MaxError exactly for
\* v > max, and succeeds otherwise; with only length checks active it fails
\* with MinLengthError exactly for len(v) < minLength, with MaxLengthError
\* exactly for len(v) > maxLength, and succeeds otherwise.
C9_InclusiveBounds ==
    /\ RangeOnly =>
          /\ last.err.exc = "MinError" <=> (last.c.min.has /\ last.value.n < last.c.min.val.n)
          /\ last.err.exc = "MaxError" <=> (last.c.max.has /\ last.value.n > last.c.max.val.n)
          /\ last.err = NoError \/ last.err.exc \in {"MinError", "MaxError"}
    /\ LengthOnly =>
          /\ last.err.exc = "MinLengthError"
                <=> (last.c.minLength.has /\ last.value.n < last.c.minLength.val.n)
          /\ last.err.exc = "MaxLengthError"
                <=> (last.c.maxLength.has /\ last.value.n > last.c.maxLength.val.n)
          /\ last.err = NoError \/ last.err.exc \in {"MinLengthError", "MaxLengthError"}

\* a value equal to both bounds is accepted
C9_Witness ==
    /\ RangeOnly /\ last.c.min.has /\ last.c.max.has
    /\ last.value.n = last.c.min.val.n /\ last.value.n = last.c.max.val.n
    /\ last.err = NoError

\* the stored declarations
Stored == {_args[i] : i \in 1..Len(_args)} \cup {_kwargs[i] : i \in 1..Len(_kwargs)}

\* C10: a default is validated at declaration against every active check,
\* possibleValues included: a declaration whose default is not among its
\* possibleValues fails with NotAllowedValue (InvalidArgument) when nothing
\* fails before, and no stored constraint has a default that its own
\* validate rejects.
C10_DefaultValidated ==
    /\ \A d \in Stored :
          d.c.default.has => validate(d.c, d.name, d.c.default.val) = NoError
    /\ (/\ last.op \in {"addKeywordArg", "addPositionalArg"}
        /\ last.kwargs.default.has /\ last.kwargs.possibleValues.has
        /\ ~PyIn(last.kwargs.default.val, last.kwargs.possibleValues.val))
       => last.err # NoError

\* MultiplePositionalDefaults: the two ValueErrors of addPositionalArg
IsMultiplePositionalDefaults(e) ==
    /\ e.exc = "ValueError"
    /\ e.msg \in {"If a default is set on a positional arg only one positional arg may be used",
                  "Multiple positional arguments with defaults are not allowed."}

\* at most one declaration of the dictionary d carries a default, and one
\* that does is the only declaration of d
OneDefaulted(d) == \A i \in 1..Len(d) : d[i].c.default.has => Len(d) = 1

\* C11: after any sequence of addPositionalArg calls, successful or failing,
\* at most one stored positional declaration carries a default, and one that
\* does is the only stored positional declaration; a well-formed call whose
\* declaration would break this if it were stored fails with
\* MultiplePositionalDefaults and stores nothing, whether the defaulted
\* declaration comes first or last.
C11_OnePositionalDefault ==
    /\ [](OneDefaulted(_args))
    /\ [][(/\ last'.op = "addPositionalArg"
           /\ _parseConstraint(last'.name, last'.kwargs).err = NoError
           /\ ~OneDefaulted(DictSet(_args, last'.name,
                                    _parseConstraint(last'.name, last'.kwargs).c)))
          => (IsMultiplePositionalDefaults(last'.err) /\ _args' = _args)]_vars

\* a second positional is refused after a defaulted one was stored
C11_Witness ==
    /\ last.op = "addPositionalArg"
    /\ last.err.msg = "If a default is set on a positional arg only one positional arg may be used"
    /\ _parseConstraint(last.name, last.kwargs).err = NoError
    /\ Len(_args) = 1 /\ _args[1].c.default.has /\ _args[1].name # last.name

\* C12: parseArgs is a read pass over the declarations: it leaves _args,
\* _kwargs and _hasDefaultPositionalArg as they were before the call, so a
\* second call made right after a first one with the same arguments ends as
\* the first did, with the same error or the same bindings.
C12_BindNonDestructive ==
    Bound =>
      /\ _args = last.pre._args
      /\ _kwargs = last.pre._kwargs
      /\ _hasDefaultPositionalArg = last.pre._hasDefaultPositionalArg
      /\ last.again => (last.err = last.first.err /\ attrs = last.first.attrs)

\* C13: a parseArgs call that fails, in either phase and with any error, has
\* bound no name: the attributes are those of before the call, the names
\* validated before the failing one included.
C13_NoPartialBinding ==
    (Bound /\ last.err # NoError) => attrs = last.pre.attrs

\* C14: when the j-th overflowing positional value targets a keyword
\* declaration whose name is also among the explicit keyword values, parseArgs
\* fails with an error and binds that name to neither value.
C14_OverflowCollision ==
    (Bound /\ K0 >= 1 /\ P0 < A0 /\ A0 <= P0 + K0) =>
       \A j \in 1..(A0 - P0) :
          KwName(j) \in DOMAIN last.kwargs =>
             /\ last.err # NoError
             /\ attrs[KwName(j)] = last.pre.attrs[KwName(j)]

\* the declaration d is optional and has no default
OptionalOnly(d) == d.c.optional /\ ~d.c.default.has

\* C15: a declared parameter, positional or keyword, that is optional, has no
\* default and gets no value is bound to the absent marker None and does not
\* fail the call.  Positional: when the A < P values given are valid and the
\* declarations left without a value are all optional, the positional phase
\* passes and binds them to None.  Keyword: such a declaration never raises
\* MissingKeyword, and it is bound to None once the declarations before it
\* are resolved.
C15_OptionalAbsent ==
    Bound =>
      /\ (/\ A0 < P0
          /\ \A i \in 1..A0 : PosValid(i)
          /\ \A i \in (A0 + 1)..P0 : OptionalOnly(last.pre._args[i]))
         => /\ last.mid.returned
            /\ \A i \in (A0 + 1)..P0 : attrs[PosName(i)] = NoneV
      /\ last.mid.returned =>
            \A i \in 1..K0 :
               (OptionalOnly(last.pre._kwargs[i]) /\ ~KwSupplied(i)) =>
                  /\ ~(IsMissingKeyword(last.err) /\ KwName(i) \in last.err.names)
                  /\ i \in KwResolved => attrs[KwName(i)] = NoneV

\* C16: a declaration call, addPositionalArg or addKeywordArg, that fails, for
\* whatever reason (an unsupported key, a malformed option, a default or a
\* possibleValues element failing a check, MultiplePositionalDefaults),
\* leaves _args, _kwargs and _hasDefaultPositionalArg exactly as they were.
C16_FailedDeclarationFrame ==
    [][(last'.op \in {"addKeywordArg", "addPositionalArg"} /\ last'.err # NoError)
       => UNCHANGED <<_args, _kwargs, _hasDefaultPositionalArg>>]_vars

\* a defaulted positional declaration refused because positional declarations
\* are already stored, which stay as they are with the flag still unset
C16_Witness ==
    /\ last.op = "addPositionalArg"
    /\ last.err.msg = "Multiple positional arguments with defaults are not allowed."
    /\ Len(_args) = MaxPos /\ Len(_kwargs) >= 1
    /\ ~_hasDefaultPositionalArg

====
